---- MODULE Spec2Model ----
(***************************************************************************)
(* Model of pkg/provisioners/channel_util.go: the helpers a Channel        *)
(* provisioner uses to ensure the Channel's K8s Service and Istio          *)
(* VirtualService exist and match their desired state, and to persist the  *)
(* Channel's finalizers and status.                                        *)
(*                                                                         *)
(* The API server behind runtimeClient.Client is the environment: a        *)
(* key-object store with Get/Create/Update, optimistic concurrency on      *)
(* resourceVersion, and other writers that act between the store calls of  *)
(* one invocation.  Every invocation is therefore split at its store       *)
(* calls: the step that Gets (and decides), and the step that Creates or   *)
(* Updates.                                                                *)
(***************************************************************************)
EXTENDS Integers, Sequences, FiniteSets, TLC

VARIABLES
    store,      \* the API server: object key -> stored object (or NoObj)
    rv,         \* the API server's resource version counter
    c,          \* the caller's in-memory Channel (possibly stale)
    pc,         \* "idle"; "create" or "update": an operation is about to issue
                \* that call; "done": it has just returned
    op,         \* the operation in flight or just returned
    u,          \* the Channel that operation was called with
    fetched,    \* the object its Get returned, as returned (NoObj if none)
    pending,    \* the object its Create/Update sends (NoObj if none)
    calls,      \* the store calls it has issued so far: which, the error
                \* returned, whether the store changed
    ret,        \* what the operation just returned: [obj, err]
    prior,      \* the calls of the same operation when it had just returned
                \* without error as this one was called, <<>> otherwise
    raced,      \* another writer has changed the operation's object while the
                \* operation was in flight
    fin,        \* the AddFinalizer/RemoveFinalizer call that has just returned:
                \* the name it was given and its result (NoCall if none)
    built       \* what the naming functions were last applied to and gave
                \* (NoObj if nothing)

vars == <<store, rv, c, pc, op, u, fetched, pending, calls, ret, prior, raced,
          fin, built>>

(***************************************************************************)
(* Bounds of the model.                                                    *)
(***************************************************************************)
\* Resource versions the API server hands out (the Channel holds the first).
MaxRV == 3

(***************************************************************************)
(* Constants of the package.                                               *)
(***************************************************************************)
PortName == "http"
PortNumber == 80

FinalizerAlreadyPresent == FALSE
FinalizerAdded == TRUE

(***************************************************************************)
(* Values.                                                                 *)
(***************************************************************************)
\* A nil pointer / no object.
NoObj == [kind |-> "none"]
\* No call of AddFinalizer or RemoveFinalizer has just returned.
NoCall == [name |-> "", result |-> FALSE]
\* A nil error, and the errors the API server answers with.
NoErr == "nil"
NotFound == "NotFound"
AlreadyExists == "AlreadyExists"
Conflict == "Conflict"
Invalid == "Invalid"
InternalError == "InternalError"
Timeout == "Timeout"
\* The errors a Get can fail with, whatever the store holds; a Create or an
\* Update that fails so fails with the first.
ServerErrors == {InternalError, Timeout}

\* k8serrors.IsNotFound
IsNotFound(err) == err = NotFound

\* fmt.Sprintf with %s verbs only: the pieces of the format and the
\* arguments, in order, concatenated.
RECURSIVE Sprintf(_)
Sprintf(parts) ==
    IF parts = <<>> THEN "" ELSE Head(parts) \o Sprintf(Tail(parts))

ChannelVirtualServiceName(channelName) == Sprintf(<<channelName, "-channel">>)

ChannelServiceName(channelName) == Sprintf(<<channelName, "-channel">>)

\* The namespace is left out of the host.
ChannelHostNameOfNameOnly(channelName, namespace) ==
    Sprintf(<<channelName, ".channels.cluster.local">>)

ChannelHostName(channelName, namespace) ==
    Sprintf(<<channelName, ".", namespace, ".channels.cluster.local">>)

\* controller.ServiceHostName, ChannelDispatcherServiceName and
\* system.Namespace live in other files of the repository.
ServiceHostName(serviceName, namespace) ==
    Sprintf(<<serviceName, ".", namespace, ".svc.cluster.local">>)

ChannelDispatcherServiceName(ccpName) == Sprintf(<<ccpName, "-dispatcher">>)

SystemNamespace == "knative-eventing"

\* metav1.NewControllerRef(c, Channel GVK)
NewControllerRef(ch) ==
    [kind |-> "Channel", name |-> ch.name, uid |-> ch.uid, controller |-> TRUE]

\* A ServicePort; targetPort is a field newK8sService leaves at its zero value.
ServicePort(name, port, targetPort) ==
    [name |-> name, port |-> port, targetPort |-> targetPort]

(***************************************************************************)
(* Desired state.                                                          *)
(***************************************************************************)
\* resourceVersion 0 stands for the empty string: the object was never read
\* from or written to the API server.
newK8sService(ch) ==
    [kind |-> "Service",
     namespace |-> ch.namespace,
     name |-> ChannelServiceName(ch.name),
     labels |-> [channel |-> ch.name, provisioner |-> ch.spec.provisioner],
     ownerReferences |-> <<NewControllerRef(ch)>>,
     resourceVersion |-> 0,
     spec |-> [ports |-> <<ServicePort(PortName, PortNumber, 0)>>,
               clusterIP |-> "",
               type |-> ""]]

\* The dispatcher is looked up by the Channel's name.
newVirtualServiceByChannelName(channel) ==
    LET destinationHost ==
            ServiceHostName(ChannelDispatcherServiceName(channel.name), SystemNamespace)
    IN  [kind |-> "VirtualService",
         namespace |-> channel.namespace,
         name |-> ChannelVirtualServiceName(channel.name),
         labels |-> [channel |-> channel.name,
                     provisioner |-> channel.spec.provisioner],
         ownerReferences |-> <<NewControllerRef(channel)>>,
         resourceVersion |-> 0,
         spec |-> [hosts |-> <<ServiceHostName(ChannelServiceName(channel.name),
                                               channel.namespace),
                               ChannelHostName(channel.name, channel.namespace)>>,
                   gateways |-> <<>>,
                   http |-> <<[rewrite |-> [authority |->
                                    ChannelHostName(channel.name, channel.namespace)],
                               route |-> <<[destination |->
                                    [host |-> destinationHost,
                                     port |-> [number |-> PortNumber]]]>>]>>]]

newVirtualService(channel) ==
    LET destinationHost ==
            ServiceHostName(ChannelDispatcherServiceName(channel.spec.provisioner),
                            SystemNamespace)
    IN  [kind |-> "VirtualService",
         namespace |-> channel.namespace,
         name |-> ChannelVirtualServiceName(channel.name),
         labels |-> [channel |-> channel.name,
                     provisioner |-> channel.spec.provisioner],
         ownerReferences |-> <<NewControllerRef(channel)>>,
         resourceVersion |-> 0,
         spec |-> [hosts |-> <<ServiceHostName(ChannelServiceName(channel.name),
                                               channel.namespace),
                               ChannelHostName(channel.name, channel.namespace)>>,
                   gateways |-> <<>>,
                   http |-> <<[rewrite |-> [authority |->
                                    ChannelHostName(channel.name, channel.namespace)],
                               route |-> <<[destination |->
                                    [host |-> destinationHost,
                                     port |-> [number |-> PortNumber]]]>>]>>]]

(***************************************************************************)
(* equality.Semantic.DeepDerivative and DeepEqual, as the library computes *)
(* them on the types compared here: an empty string, a nil or empty slice  *)
(* in the first argument is not compared; a slice in the first argument is *)
(* compared element by element against the head of the second; numbers are *)
(* compared by ordinary equality, their zero value included.               *)
(***************************************************************************)
DerivativeString(a1, a2) == a1 = "" \/ a1 = a2

\* The indices at which two slices are compared: those of the first, when
\* it is not the longer.
SliceIndices(a1, a2) == IF Len(a1) <= Len(a2) THEN 1..Len(a1) ELSE {}

\* Slices a1 and a2, elems[i] telling whether their i-th elements compare.
DerivativeSlice(a1, a2, elems) ==
    \/ Len(a1) = 0
    \/ /\ Len(a1) <= Len(a2)
       /\ \A i \in DOMAIN elems : elems[i]

DerivativeServicePort(a1, a2) ==
    /\ DerivativeString(a1.name, a2.name)
    /\ a1.port = a2.port
    /\ a1.targetPort = a2.targetPort

\* DeepDerivative on corev1.ServiceSpec
DerivativeServiceSpec(a1, a2) ==
    /\ DerivativeSlice(a1.ports, a2.ports,
                       [i \in SliceIndices(a1.ports, a2.ports) |->
                           DerivativeServicePort(a1.ports[i], a2.ports[i])])
    /\ DerivativeString(a1.clusterIP, a2.clusterIP)
    /\ DerivativeString(a1.type, a2.type)

DerivativeDestinationWeight(a1, a2) ==
    /\ DerivativeString(a1.destination.host, a2.destination.host)
    /\ a1.destination.port.number = a2.destination.port.number

\* Rewrite is a pointer; every route here carries one.
DerivativeHTTPRoute(a1, a2) ==
    /\ DerivativeString(a1.rewrite.authority, a2.rewrite.authority)
    /\ DerivativeSlice(a1.route, a2.route,
                       [i \in SliceIndices(a1.route, a2.route) |->
                           DerivativeDestinationWeight(a1.route[i], a2.route[i])])

\* DeepDerivative on istiov1alpha3.VirtualServiceSpec
DerivativeVirtualServiceSpec(a1, a2) ==
    /\ DerivativeSlice(a1.hosts, a2.hosts,
                       [i \in SliceIndices(a1.hosts, a2.hosts) |->
                           DerivativeString(a1.hosts[i], a2.hosts[i])])
    /\ DerivativeSlice(a1.gateways, a2.gateways,
                       [i \in SliceIndices(a1.gateways, a2.gateways) |->
                           DerivativeString(a1.gateways[i], a2.gateways[i])])
    /\ DerivativeSlice(a1.http, a2.http,
                       [i \in SliceIndices(a1.http, a2.http) |->
                           DerivativeHTTPRoute(a1.http[i], a2.http[i])])

\* Semantic.DeepEqual: a nil and an empty slice are equal (both are <<>>
\* here); otherwise element by element, in order.
DeepEqual(a1, a2) == a1 = a2

(***************************************************************************)
(* Finalizers.  sets.String is a set of strings; its List() is the sorted  *)
(* slice of its members.  The model's finalizer names are listed in the    *)
(* order Go's < on strings puts them.                                      *)
(***************************************************************************)
FinalizerNames == <<"a", "b", "x">>

\* The place of a name in the order of strings.
Rank(n) == CHOOSE i \in 1..Len(FinalizerNames) : FinalizerNames[i] = n

\* sets.NewString(items...)
NewString(items) == {items[i] : i \in 1..Len(items)}

\* sets.String.List
RECURSIVE List(_)
List(s) ==
    IF s = {} THEN <<>>
    ELSE LET least == CHOOSE x \in s : \A y \in s : Rank(x) <= Rank(y)
         IN  <<least>> \o List(s \ {least})

\* The name is appended to the slice as it is.
AddFinalizerAppends(ch, finalizerName) ==
    IF finalizerName \in NewString(ch.finalizers)
    THEN [c |-> ch, result |-> FinalizerAlreadyPresent]
    ELSE [c |-> [ch EXCEPT !.finalizers = Append(ch.finalizers, finalizerName)],
          result |-> FinalizerAdded]

\* AddFinalizer: the Channel as the call leaves it, and the result.
AddFinalizer(ch, finalizerName) ==
    LET finalizers == NewString(ch.finalizers)
    IN  IF finalizerName \in finalizers
        THEN [c |-> ch, result |-> FinalizerAlreadyPresent]
        ELSE [c |-> [ch EXCEPT !.finalizers = List(finalizers \cup {finalizerName})],
              result |-> FinalizerAdded]

\* The name is taken out of the slice, which is otherwise left as it is.
RECURSIVE Without(_, _)
Without(items, name) ==
    IF items = <<>> THEN <<>>
    ELSE IF Head(items) = name THEN Without(Tail(items), name)
    ELSE <<Head(items)>> \o Without(Tail(items), name)

RemoveFinalizerInPlace(ch, finalizerName) ==
    [ch EXCEPT !.finalizers = Without(ch.finalizers, finalizerName)]

\* The set is built empty, without the Channel's finalizers.
RemoveFinalizerClears(ch, finalizerName) ==
    [ch EXCEPT !.finalizers = <<>>]

\* RemoveFinalizer: the Channel as the call leaves it.
RemoveFinalizer(ch, finalizerName) ==
    LET finalizers == NewString(ch.finalizers)
    IN  [ch EXCEPT !.finalizers = List(finalizers \ {finalizerName})]

(***************************************************************************)
(* The API server.                                                         *)
(***************************************************************************)
KeyOf(obj) == [kind |-> obj.kind, namespace |-> obj.namespace, name |-> obj.name]

\* The address the API server allocates to the n-th object written.
ClusterIPOf(n) == Sprintf(<<"10.0.0.", ToString(n)>>)

\* What the server persists for a written object: a fresh resourceVersion
\* and, for a Service without one, a cluster IP.
Persisted(obj, n) ==
    IF obj.kind = "Service" /\ obj.spec.clusterIP = ""
    THEN [obj EXCEPT !.resourceVersion = n, !.spec.clusterIP = ClusterIPOf(n)]
    ELSE [obj EXCEPT !.resourceVersion = n]

\* client.Get: the results it can have, [obj, err].
GetResults(key) ==
    {[obj |-> NoObj, err |-> e] : e \in ServerErrors} \cup
    (IF store[key] = NoObj
     THEN {[obj |-> NoObj, err |-> NotFound]}
     ELSE {[obj |-> store[key], err |-> NoErr]})

\* client.Create: the results it can have, [store, rv, err].
CreateResults(obj) ==
    {[store |-> store, rv |-> rv, err |-> InternalError]} \cup
    (IF store[KeyOf(obj)] # NoObj
     THEN {[store |-> store, rv |-> rv, err |-> AlreadyExists]}
     ELSE IF rv < MaxRV
     THEN {[store |-> [store EXCEPT ![KeyOf(obj)] = Persisted(obj, rv + 1)],
            rv |-> rv + 1, err |-> NoErr]}
     ELSE {})

\* client.Update: the results it can have, [store, rv, err]. An object sent
\* with a resourceVersion must carry the stored one; a Service's clusterIP
\* is immutable.
UpdateResults(obj) ==
    {[store |-> store, rv |-> rv, err |-> InternalError]} \cup
    (LET live == store[KeyOf(obj)]
     IN  IF live = NoObj
         THEN {[store |-> store, rv |-> rv, err |-> NotFound]}
         ELSE IF obj.resourceVersion # 0 /\ obj.resourceVersion # live.resourceVersion
         THEN {[store |-> store, rv |-> rv, err |-> Conflict]}
         ELSE IF obj.kind = "Service" /\ obj.spec.clusterIP # live.spec.clusterIP
         THEN {[store |-> store, rv |-> rv, err |-> Invalid]}
         ELSE IF rv < MaxRV
         THEN {[store |-> [store EXCEPT ![KeyOf(obj)] = Persisted(obj, rv + 1)],
                rv |-> rv + 1, err |-> NoErr]}
         ELSE {})

(***************************************************************************)
(* The Channel being reconciled, and what other writers put in the store.  *)
(***************************************************************************)
Provisioners == {"kafka", "natss"}
Statuses == {"", "Ready"}
FinalizerLists == {<<>>, <<"a", "x">>}

\* What a caller of UpdateChannel has arrived at in memory: a Channel it has
\* not yet touched, or one it has put its finalizers on and found ready.
CallerViews == {v \in FinalizerLists \X Statuses : (v[1] = <<>>) <=> (v[2] = "")}

\* The Channel as the API server holds it at the start.
Channel(provisioner) ==
    [kind |-> "Channel", namespace |-> "ns1", name |-> "orders", uid |-> "uid-1",
     resourceVersion |-> 1,
     finalizers |-> <<>>,
     spec |-> [provisioner |-> provisioner, arguments |-> "a1"],
     status |-> ""]

Keys ==
    {[kind |-> "Channel", namespace |-> "ns1", name |-> "orders"],
     [kind |-> "Service", namespace |-> "ns1", name |-> ChannelServiceName("orders")],
     [kind |-> "VirtualService", namespace |-> "ns1",
      name |-> ChannelVirtualServiceName("orders")]}

\* Owner references other writers leave on a child: none, the Channel's, or
\* another object's.
ExtOwners ==
    {<<>>,
     <<NewControllerRef(c)>>,
     <<[kind |-> "Channel", name |-> "billing", uid |-> "uid-2", controller |-> TRUE]>>}

ExtLabels == [app |-> "legacy"]

\* Service specs other writers leave: the desired port with a type; another
\* port number, with a type; the desired port with a target port.
ExtServiceSpecs ==
    {[ports |-> <<ServicePort(PortName, PortNumber, 0)>>, type |-> "ClusterIP"],
     [ports |-> <<ServicePort(PortName, 8080, 0)>>, type |-> "ClusterIP"],
     [ports |-> <<ServicePort(PortName, PortNumber, 8080)>>, type |-> ""]}

ExtServices ==
    {[newK8sService(c) EXCEPT !.labels = ExtLabels,
                              !.ownerReferences = o,
                              !.spec.ports = sp.ports,
                              !.spec.type = sp.type] :
        o \in ExtOwners, sp \in ExtServiceSpecs}

\* VirtualService specs other writers leave: the desired one with a gateway
\* and one more host; the pre-0.2.0 one routing to the clusterbus.
ExtVirtualServiceSpecs ==
    LET want == newVirtualService(c).spec
    IN  {[want EXCEPT !.gateways = <<"mesh">>,
                      !.hosts = want.hosts \o <<"orders.example.com">>],
         [want EXCEPT !.gateways = <<"mesh">>,
                      !.http[1].route[1].destination.host =
                          ServiceHostName(Sprintf(<<c.spec.provisioner, "-clusterbus">>),
                                          SystemNamespace)]}

ExtVirtualServices ==
    {[newVirtualService(c) EXCEPT !.labels = ExtLabels,
                                  !.ownerReferences = o,
                                  !.spec = sp] :
        o \in ExtOwners, sp \in ExtVirtualServiceSpecs}

\* What another writer can make of the stored Channel: other arguments,
\* another status, other finalizers (not sorted).
ExtChannels(live) ==
    {[live EXCEPT !.spec.arguments = "a2"],
     [live EXCEPT !.finalizers = <<"x", "a">>]}
    \cup {[live EXCEPT !.status = s] : s \in Statuses}

ExtObjects(live) ==
    IF live.kind = "Channel" THEN ExtChannels(live)
    ELSE IF live.kind = "Service"
    THEN {[o EXCEPT !.spec.clusterIP = live.spec.clusterIP] : o \in ExtServices}
    ELSE ExtVirtualServices

Init ==
    \E p \in Provisioners :
        /\ store = [k \in Keys |-> IF k.kind = "Channel" THEN Channel(p) ELSE NoObj]
        /\ rv = 1
        /\ c = Channel(p)
        /\ pc = "idle"
        /\ op = "none"
        /\ u = NoObj
        /\ fetched = NoObj
        /\ pending = NoObj
        /\ calls = <<>>
        /\ ret = [obj |-> NoObj, err |-> NoErr]
        /\ prior = <<>>
        /\ raced = FALSE
        /\ fin = NoCall
        /\ built = NoObj

(***************************************************************************)
(* Other writers.                                                          *)
(***************************************************************************)
\* The kind of object an operation of the package works on.
OpKind(o) ==
    IF o = "CreateK8sService" THEN "Service"
    ELSE IF o = "CreateVirtualService" THEN "VirtualService"
    ELSE IF o = "UpdateChannel" THEN "Channel"
    ELSE "none"

\* Another writer has changed the object of this kind. What an operation
\* returned is on record until the next step of anyone; an operation in
\* flight does not notice the change.
Disturb(kind) ==
    IF pc = "done"
    THEN /\ pc' = "idle"
         /\ op' = "none"
         /\ u' = NoObj
         /\ fetched' = NoObj
         /\ pending' = NoObj
         /\ calls' = <<>>
         /\ ret' = [obj |-> NoObj, err |-> NoErr]
         /\ prior' = <<>>
         /\ raced' = FALSE
         /\ fin' = NoCall
         /\ UNCHANGED built
    ELSE /\ raced' = (raced \/ OpKind(op) = kind)
         /\ UNCHANGED <<pc, op, u, fetched, pending, calls, ret, prior, fin, built>>

ExtCreate ==
    \E obj \in ExtServices \cup ExtVirtualServices :
        /\ store[KeyOf(obj)] = NoObj
        /\ rv < MaxRV
        /\ store' = [store EXCEPT ![KeyOf(obj)] = Persisted(obj, rv + 1)]
        /\ rv' = rv + 1
        /\ Disturb(obj.kind)
        /\ UNCHANGED c

ExtUpdate ==
    \E k \in Keys :
        /\ store[k] # NoObj
        /\ rv < MaxRV
        /\ \E obj \in ExtObjects(store[k]) :
            /\ [obj EXCEPT !.resourceVersion = 0]
                   # [store[k] EXCEPT !.resourceVersion = 0]
            /\ store' = [store EXCEPT ![k] = Persisted(obj, rv + 1)]
        /\ rv' = rv + 1
        /\ Disturb(k.kind)
        /\ UNCHANGED c

ExtDelete ==
    \E k \in Keys :
        /\ store[k] # NoObj
        /\ store' = [store EXCEPT ![k] = NoObj]
        /\ Disturb(k.kind)
        /\ UNCHANGED <<rv, c>>

(***************************************************************************)
(* The package's operations.                                               *)
(*                                                                         *)
(* What an operation does with the result of a store call is an operator   *)
(* giving [next, send, obj, err]: next is "create" or "update" when that   *)
(* call follows, sending send; next is "done" when the operation returns   *)
(* (obj, err).                                                             *)
(***************************************************************************)
Goes(next, send) == [next |-> next, send |-> send, obj |-> NoObj, err |-> NoErr]

Returns(obj, err) == [next |-> "done", send |-> NoObj, obj |-> obj, err |-> err]

\* One entry of the log of store calls.
Call(name, err, changed) == [call |-> name, err |-> err, changed |-> changed]

\* The calls of the operation that has just returned without error, when
\* it is the one now called again.
Succeeding(name) ==
    IF pc = "done" /\ op = name /\ ret.err = NoErr THEN calls ELSE <<>>

\* An operation is called with Channel ch; its Get of key returns r, and it
\* decides d.
Begin(name, ch, r, d) ==
    /\ pc \in {"idle", "done"}
    /\ op' = name
    /\ u' = ch
    /\ prior' = Succeeding(name)
    /\ raced' = FALSE
    /\ fetched' = r.obj
    /\ calls' = <<Call("Get", r.err, FALSE)>>
    /\ pc' = d.next
    /\ pending' = d.send
    /\ ret' = [obj |-> d.obj, err |-> d.err]
    /\ fin' = NoCall
    /\ UNCHANGED <<store, rv, c, built>>

\* A child whose Create or Update failed is deleted, for the next pass to
\* create it anew.
FinishDeletingOnError(name, r, d) ==
    /\ store' = IF r.err = NoErr THEN r.store
                ELSE [store EXCEPT ![KeyOf(pending)] = NoObj]
    /\ rv' = r.rv
    /\ calls' = Append(calls, Call(name, r.err, r.store # store))
    /\ pc' = d.next
    /\ ret' = [obj |-> d.obj, err |-> d.err]
    /\ UNCHANGED <<c, op, u, fetched, pending, prior, raced, fin, built>>

\* The operation's Create or Update has had result r, and it returns d.
Finish(name, r, d) ==
    /\ store' = r.store
    /\ rv' = r.rv
    /\ calls' = Append(calls, Call(name, r.err, r.store # store))
    /\ pc' = d.next
    /\ ret' = [obj |-> d.obj, err |-> d.err]
    /\ UNCHANGED <<c, op, u, fetched, pending, prior, raced, fin, built>>

\* Variants of the definitions below, each with one plausible slip; every
\* property further down is checked to tell the definition from its variant.

\* The ClusterIP is not carried over.
svcWithoutClusterIP(svc, current) == svc

\* svc.Spec.ClusterIP = current.Spec.ClusterIP
svcWithClusterIP(svc, current) ==
    [svc EXCEPT !.spec.clusterIP = current.spec.clusterIP]

\* Drift is never seen.
svcNeverChanged(svc, current) == FALSE

\* The negation is missing.
svcChangedInverted(svc, current) == DerivativeServiceSpec(svc.spec, current.spec)

\* !equality.Semantic.DeepDerivative(svc.Spec, current.Spec)
svcChanged(svc, current) == ~DerivativeServiceSpec(svc.spec, current.spec)

\* Update sends the desired object under the fetched resourceVersion.
svcUpdateWhole(svc, current) ==
    [svc EXCEPT !.resourceVersion = current.resourceVersion]

\* Update sends the fetched object without its resourceVersion.
svcUpdateUnversioned(svc, current) ==
    [current EXCEPT !.spec = svc.spec, !.resourceVersion = 0]

\* current.Spec = svc.Spec; current is what Update sends.
svcUpdate(svc, current) == [current EXCEPT !.spec = svc.spec]

\* Every error of Get is taken for NotFound.
createK8sServiceGotAnyErr(svc, current, err) ==
    IF err # NoErr
    THEN Goes("create", svc)
    ELSE LET svc2 == svcWithClusterIP(svc, current)
         IN  IF svcChanged(svc2, current)
             THEN Goes("update", svcUpdate(svc2, current))
             ELSE Returns(current, NoErr)

\* createK8sService after err := client.Get(ctx, svcKey, current).
createK8sServiceGot(svc, current, err) ==
    IF IsNotFound(err)
    THEN Goes("create", svc)
    ELSE IF err # NoErr
    THEN Returns(NoObj, err)
    ELSE LET svc2 == svcWithClusterIP(svc, current)
         IN  IF svcChanged(svc2, current)
             THEN Goes("update", svcUpdate(svc2, current))
             ELSE Returns(current, NoErr)

\* AlreadyExists is taken for success.
createK8sServiceCreatedLenient(svc, err) ==
    IF err # NoErr /\ err # AlreadyExists THEN Returns(NoObj, err)
    ELSE Returns(svc, NoErr)

\* After a Create that found the object there, the object is updated.
createK8sServiceCreatedFallsBack(svc, err) ==
    IF err = AlreadyExists THEN Goes("update", svc)
    ELSE IF err # NoErr THEN Returns(NoObj, err)
    ELSE Returns(svc, NoErr)

\* createK8sService after err = client.Create(ctx, svc); svc is the object
\* as the server has filled it in.
createK8sServiceCreated(svc, err) ==
    IF err # NoErr THEN Returns(NoObj, err) ELSE Returns(svc, NoErr)

\* createK8sService after err = client.Update(ctx, current).
createK8sServiceUpdated(current, err) ==
    IF err # NoErr THEN Returns(NoObj, err) ELSE Returns(current, NoErr)

\* CreateK8sService and createK8sService, up to the Get and the decision on
\* its result.
CreateK8sService ==
    LET svcKey == [kind |-> "Service", namespace |-> c.namespace,
                   name |-> ChannelServiceName(c.name)]
    IN  \E r \in GetResults(svcKey) :
            Begin("CreateK8sService", c, r,
                  createK8sServiceGot(newK8sService(c), r.obj, r.err))

createK8sServiceCreate ==
    /\ pc = "create"
    /\ op = "CreateK8sService"
    /\ \E r \in CreateResults(pending) :
        Finish("Create", r, createK8sServiceCreated(r.store[KeyOf(pending)], r.err))

createK8sServiceUpdate ==
    /\ pc = "update"
    /\ op = "CreateK8sService"
    /\ \E r \in UpdateResults(pending) :
        Finish("Update", r, createK8sServiceUpdated(r.store[KeyOf(pending)], r.err))

\* getVirtualService: the results of its Get.
getVirtualService(channel) ==
    LET vsk == [kind |-> "VirtualService", namespace |-> channel.namespace,
                name |-> ChannelVirtualServiceName(channel.name)]
    IN  GetResults(vsk)

\* The labels are compared too.
vsChangedOrRelabelled(expected, virtualService) ==
    \/ ~DerivativeVirtualServiceSpec(expected.spec, virtualService.spec)
    \/ expected.labels # virtualService.labels

\* !equality.Semantic.DeepDerivative(expected.Spec, virtualService.Spec)
vsChanged(expected, virtualService) ==
    ~DerivativeVirtualServiceSpec(expected.spec, virtualService.spec)

\* virtualService.Spec = expected.Spec; virtualService is what Update sends.
vsUpdate(expected, virtualService) ==
    [virtualService EXCEPT !.spec = expected.spec]

\* CreateVirtualService after getVirtualService.
CreateVirtualServiceGot(channel, virtualService, err) ==
    IF IsNotFound(err)
    THEN Goes("create", newVirtualService(channel))
    ELSE IF err # NoErr
    THEN Returns(NoObj, err)
    ELSE LET expected == newVirtualService(channel)
         IN  IF vsChanged(expected, virtualService)
             THEN Goes("update", vsUpdate(expected, virtualService))
             ELSE Returns(virtualService, NoErr)

\* CreateVirtualService after err = client.Create(ctx, virtualService).
CreateVirtualServiceCreated(virtualService, err) ==
    IF err # NoErr THEN Returns(NoObj, err) ELSE Returns(virtualService, NoErr)

\* CreateVirtualService after err := client.Update(ctx, virtualService).
CreateVirtualServiceUpdated(virtualService, err) ==
    IF err # NoErr THEN Returns(NoObj, err) ELSE Returns(virtualService, NoErr)

CreateVirtualService ==
    \E r \in getVirtualService(c) :
        Begin("CreateVirtualService", c, r, CreateVirtualServiceGot(c, r.obj, r.err))

CreateVirtualServiceCreate ==
    /\ pc = "create"
    /\ op = "CreateVirtualService"
    /\ \E r \in CreateResults(pending) :
        Finish("Create", r,
               CreateVirtualServiceCreated(r.store[KeyOf(pending)], r.err))

CreateVirtualServiceUpdate ==
    /\ pc = "update"
    /\ op = "CreateVirtualService"
    /\ \E r \in UpdateResults(pending) :
        Finish("Update", r,
               CreateVirtualServiceUpdated(r.store[KeyOf(pending)], r.err))

\* Update sends the caller's Channel under the fetched resourceVersion.
channelUpdateStale(channel, uu) ==
    [uu EXCEPT !.resourceVersion = channel.resourceVersion]

\* The Channel UpdateChannel sends: the fetched one, with the finalizers and
\* the status of the caller's where they differ.
channelUpdate(channel, uu) ==
    LET withFinalizers ==
            IF ~DeepEqual(channel.finalizers, uu.finalizers)
            THEN [channel EXCEPT !.finalizers = uu.finalizers]
            ELSE channel
    IN  IF ~DeepEqual(withFinalizers.status, uu.status)
        THEN [withFinalizers EXCEPT !.status = uu.status]
        ELSE withFinalizers

\* A changed status alone does not set updated.
channelUpdatedFinalizersOnly(channel, uu) ==
    ~DeepEqual(channel.finalizers, uu.finalizers)

\* The finalizers are compared as sets.
channelUpdatedUnordered(channel, uu) ==
    \/ NewString(channel.finalizers) # NewString(uu.finalizers)
    \/ ~DeepEqual(channel.status, uu.status)

\* updated, when UpdateChannel reaches "if updated".
channelUpdated(channel, uu) ==
    \/ ~DeepEqual(channel.finalizers, uu.finalizers)
    \/ ~DeepEqual(channel.status, uu.status)

\* NotFound is taken for nothing to do.
UpdateChannelGotLenient(uu, channel, err) ==
    IF IsNotFound(err)
    THEN Returns(NoObj, NoErr)
    ELSE IF err # NoErr
    THEN Returns(NoObj, err)
    ELSE IF channelUpdated(channel, uu)
    THEN Goes("update", channelUpdate(channel, uu))
    ELSE Returns(NoObj, NoErr)

\* UpdateChannel after err := client.Get(ctx, key, channel).
UpdateChannelGot(uu, channel, err) ==
    IF err # NoErr
    THEN Returns(NoObj, err)
    ELSE IF channelUpdated(channel, uu)
    THEN Goes("update", channelUpdate(channel, uu))
    ELSE Returns(NoObj, NoErr)

\* return client.Update(ctx, channel)
UpdateChannelUpdated(err) == Returns(NoObj, err)

\* UpdateChannel up to the Get and the decision on its result. The caller
\* passes its in-memory Channel with the finalizers and the status it has
\* arrived at.
UpdateChannel ==
    \E v \in CallerViews :
        LET uu == [c EXCEPT !.finalizers = v[1], !.status = v[2]]
        IN  \E r \in GetResults([kind |-> "Channel", namespace |-> uu.namespace,
                                 name |-> uu.name]) :
                Begin("UpdateChannel", uu, r, UpdateChannelGot(uu, r.obj, r.err))

UpdateChannelUpdate ==
    /\ pc = "update"
    /\ op = "UpdateChannel"
    /\ \E r \in UpdateResults(pending) :
        Finish("Update", r, UpdateChannelUpdated(r.err))

\* AddFinalizer and RemoveFinalizer are given the caller's in-memory Channel
\* and no client: a call, made while no store operation is in flight, has
\* returned at the end of the step, leaving c as after and reporting result.
HelperCall(name, finalizerName, after, result) ==
    /\ pc \in {"idle", "done"}
    /\ op' = name
    /\ u' = c
    /\ c' = after
    /\ fin' = [name |-> finalizerName, result |-> result]
    /\ pc' = "done"
    /\ fetched' = NoObj
    /\ pending' = NoObj
    /\ calls' = <<>>
    /\ ret' = [obj |-> NoObj, err |-> NoErr]
    /\ prior' = <<>>
    /\ raced' = FALSE
    /\ UNCHANGED <<store, rv, built>>

AddFinalizerCall(names) ==
    \E finalizerName \in names :
        LET r == AddFinalizer(c, finalizerName)
        IN  HelperCall("AddFinalizer", finalizerName, r.c, r.result)

\* RemoveFinalizer returns nothing.
RemoveFinalizerCall(names) ==
    \E finalizerName \in names :
        HelperCall("RemoveFinalizer", finalizerName,
                   RemoveFinalizer(c, finalizerName), FALSE)

Next ==
    \/ CreateK8sService
    \/ createK8sServiceCreate
    \/ createK8sServiceUpdate
    \/ CreateVirtualService
    \/ CreateVirtualServiceCreate
    \/ CreateVirtualServiceUpdate
    \/ UpdateChannel
    \/ UpdateChannelUpdate
    \/ ExtCreate
    \/ ExtUpdate
    \/ ExtDelete

Spec == Init /\ [][Next]_vars

(***************************************************************************)
(* The whole package: the store operations of Spec, and between them the   *)
(* finalizer helpers, called on the caller's Channel with the name the     *)
(* caller owns.                                                            *)
(***************************************************************************)
OwnFinalizers == {"x"}

CoreInit == Init /\ c.spec.provisioner = "kafka"

CoreNext ==
    \/ Next
    \/ AddFinalizerCall(OwnFinalizers)
    \/ RemoveFinalizerCall(OwnFinalizers)

CoreSpec == CoreInit /\ [][CoreNext]_vars

(***************************************************************************)
(* The reconcile loop around the two ensure operations: it calls each of   *)
(* them again and again, after an error as after a success, and a call     *)
(* that has begun runs to its return.                                      *)
(***************************************************************************)
\* The other writers here are those of the two children: the stored Channel
\* plays no part in the ensure operations, which work on the caller's copy.
ChannelKept == \A k \in Keys : k.kind = "Channel" => store'[k] = store[k]

LiveNext ==
    \/ CreateK8sService
    \/ createK8sServiceCreate
    \/ createK8sServiceUpdate
    \/ CreateVirtualService
    \/ CreateVirtualServiceCreate
    \/ CreateVirtualServiceUpdate
    \/ ExtCreate
    \/ ExtUpdate /\ ChannelKept
    \/ ExtDelete /\ ChannelKept

LiveSpec ==
    /\ CoreInit
    /\ [][LiveNext]_vars
    /\ WF_vars(CreateK8sService)
    /\ WF_vars(CreateVirtualService)
    /\ WF_vars(createK8sServiceCreate)
    /\ WF_vars(createK8sServiceUpdate)
    /\ WF_vars(CreateVirtualServiceCreate)
    /\ WF_vars(CreateVirtualServiceUpdate)

(***************************************************************************)
(* The finalizer helpers on their own: the caller's Channel starts with    *)
(* any list of up to MaxFinalizers names, as other writers may have left   *)
(* it (unsorted, with duplicates), and the helpers are called on it.       *)
(***************************************************************************)
MaxFinalizers == 3

FinalizerInputs ==
    UNION {[1..n -> NewString(FinalizerNames)] : n \in 0..MaxFinalizers}

FinalizerInit ==
    \E p \in Provisioners, f \in FinalizerInputs :
        /\ c = [Channel(p) EXCEPT !.finalizers = f]
        /\ store = [k \in Keys |-> IF k.kind = "Channel" THEN c ELSE NoObj]
        /\ rv = 1
        /\ pc = "idle"
        /\ op = "none"
        /\ u = NoObj
        /\ fetched = NoObj
        /\ pending = NoObj
        /\ calls = <<>>
        /\ ret = [obj |-> NoObj, err |-> NoErr]
        /\ prior = <<>>
        /\ raced = FALSE
        /\ fin = NoCall
        /\ built = NoObj

FinalizerNext ==
    \/ AddFinalizerCall(NewString(FinalizerNames))
    \/ RemoveFinalizerCall(NewString(FinalizerNames))

FinalizerSpec == FinalizerInit /\ [][FinalizerNext]_vars

(***************************************************************************)
(* The naming and desired-state functions on their own: two Channels are   *)
(* drawn, with any of the names, namespaces and provisioners below, and    *)
(* the functions are applied to both.                                      *)
(***************************************************************************)
ChannelNames == {"orders", "billing"}
Namespaces == {"ns1", "ns2"}

Channels ==
    {[Channel(p) EXCEPT !.name = n, !.namespace = ns] :
        n \in ChannelNames, ns \in Namespaces, p \in Provisioners}

NamingInit ==
    \E a \in Channels, b \in Channels :
        /\ built = [kind |-> "Channels", channels |-> <<a, b>>]
        /\ c = a
        /\ store = [k \in Keys |-> NoObj]
        /\ rv = 1
        /\ pc = "idle"
        /\ op = "none"
        /\ u = NoObj
        /\ fetched = NoObj
        /\ pending = NoObj
        /\ calls = <<>>
        /\ ret = [obj |-> NoObj, err |-> NoErr]
        /\ prior = <<>>
        /\ raced = FALSE
        /\ fin = NoCall

\* A function of the package has been applied to each of the two Channels.
Applied(name, out) ==
    /\ built' = [kind |-> name, channels |-> built.channels, out |-> out]
    /\ UNCHANGED <<store, rv, c, pc, op, u, fetched, pending, calls, ret, prior,
                   raced, fin>>

newVirtualServiceCall ==
    Applied("newVirtualService",
            [i \in 1..2 |-> newVirtualService(built.channels[i])])

ChannelHostNameCall ==
    Applied("ChannelHostName",
            [i \in 1..2 |-> ChannelHostName(built.channels[i].name,
                                            built.channels[i].namespace)])

NamingNext ==
    \/ newVirtualServiceCall
    \/ ChannelHostNameCall

NamingSpec == NamingInit /\ [][NamingNext]_vars

(***************************************************************************)
(* Properties.                                                             *)
(***************************************************************************)
EnsureOps == {"CreateK8sService", "CreateVirtualService"}

\* The key of the object operation o works on.
OpKey(o) == CHOOSE k \in Keys : k.kind = OpKind(o)

\* How many calls of this name a log holds.
Issued(log, name) == Cardinality({i \in 1..Len(log) : log[i].call = name})

\* The operation in flight has returned after its n-th store call.
ReturnedAfter(n) == pc = "done" /\ Len(calls) = n

\* C1: once CreateK8sService or CreateVirtualService has returned without
\* error, the same operation called again for the same Channel, with no
\* change by another writer since, returns without having issued a Create or
\* an Update; when the first call found no child, the two calls together
\* have issued exactly one Create and no Update.
C1_Idempotent ==
    (op \in EnsureOps /\ prior # <<>> /\ ~raced) =>
        /\ pc = "done"
        /\ Issued(calls, "Create") = 0
        /\ Issued(calls, "Update") = 0
        /\ prior[1].err = NotFound =>
              /\ Issued(prior \o calls, "Create") = 1
              /\ Issued(prior \o calls, "Update") = 0

C1_Witness ==
    /\ pc = "done"
    /\ op = "CreateK8sService"
    /\ prior # <<>>
    /\ prior[1].err = NotFound
    /\ ret.err = NoErr
    /\ ret.obj = store[OpKey(op)]

\* The first port of a live Service is not the desired port ("http", 80).
PortDiffers(live) ==
    \/ live.spec.ports = <<>>
    \/ live.spec.ports[1].name # PortName
    \/ live.spec.ports[1].port # PortNumber

\* C2: when the live Service exists and its port differs from ("http", 80),
\* CreateK8sService issues exactly one Update and no Create; the Update is
\* sent on the fetched object (its resourceVersion, its metadata, its
\* ClusterIP) with the desired port, and when it succeeds the persisted
\* Service has the desired port and the ClusterIP it had.
C2_DriftCorrected ==
    (op = "CreateK8sService" /\ fetched # NoObj /\ PortDiffers(fetched)) =>
        /\ pc \in {"update", "done"}
        /\ pending = [fetched EXCEPT !.spec.ports = newK8sService(u).spec.ports,
                                     !.spec.type = newK8sService(u).spec.type]
        /\ pc = "done" =>
              /\ Len(calls) = 2
              /\ calls[2].call = "Update"
              /\ calls[2].err = NoErr =>
                    /\ ret.err = NoErr
                    /\ store[OpKey(op)].spec.ports = <<ServicePort(PortName, PortNumber, 0)>>
                    /\ store[OpKey(op)].spec.clusterIP = fetched.spec.clusterIP
                    /\ store[OpKey(op)].resourceVersion > fetched.resourceVersion

C2_Witness ==
    /\ ReturnedAfter(2)
    /\ op = "CreateK8sService"
    /\ fetched # NoObj
    /\ PortDiffers(fetched)
    /\ calls[2].err = NoErr
    /\ store[OpKey(op)].spec.clusterIP # ""

\* C3: when the Get of CreateK8sService or CreateVirtualService returns
\* NotFound and the Create that follows fails, the operation returns that
\* error and no object, issues no further store call, and the store is as
\* it was before the Create (it holds the other writer's object).
C3_CreationRace ==
    (op \in EnsureOps /\ Len(calls) >= 2 /\ calls[2].call = "Create"
        /\ calls[2].err # NoErr) =>
        /\ ReturnedAfter(2)
        /\ ret = [obj |-> NoObj, err |-> calls[2].err]
        /\ ~calls[2].changed
        /\ calls[2].err = AlreadyExists => store[OpKey(op)] # NoObj

C3_Witness ==
    /\ ReturnedAfter(2)
    /\ op \in EnsureOps
    /\ calls[1].err = NotFound
    /\ calls[2] = Call("Create", AlreadyExists, FALSE)
    /\ raced

\* What the operation in flight computes as desired for its child.
Desired == IF op = "CreateK8sService" THEN newK8sService(u) ELSE newVirtualService(u)

\* The operation in flight has returned after a successful Update.
Updated == ReturnedAfter(2) /\ calls[2].call = "Update" /\ calls[2].err = NoErr

\* C4: after CreateK8sService or CreateVirtualService has
\* updated a live child, every field the desired value does not set (the
\* metadata, the ClusterIP, a Service's type, a VirtualService's gateways)
\* is in the persisted object as it was in the fetched one.
C4_LiveOnlyFieldsPreserved ==
    (op \in EnsureOps /\ Updated) =>
        LET now == store[OpKey(op)]
        IN  /\ now.labels = fetched.labels
            /\ now.ownerReferences = fetched.ownerReferences
            /\ op = "CreateK8sService" =>
                  /\ now.spec.clusterIP = fetched.spec.clusterIP
                  /\ Desired.spec.type = "" => now.spec.type = fetched.spec.type
            /\ op = "CreateVirtualService" =>
                  (Desired.spec.gateways = <<>> =>
                      now.spec.gateways = fetched.spec.gateways)

\* What the code does instead: after CreateK8sService or CreateVirtualService
\* has updated a live child, the persisted object is the fetched one with a new
\* resourceVersion and with its Spec replaced as a whole by the desired
\* Spec, the Service's ClusterIP alone carried over from the fetched Spec:
\* every field outside the Spec is as fetched, every field of the Spec is
\* as desired.
C4_SpecReplacedMetadataKept ==
    (op \in EnsureOps /\ Updated) =>
        LET now == store[OpKey(op)]
            spec == IF op = "CreateK8sService"
                    THEN [Desired.spec EXCEPT !.clusterIP = fetched.spec.clusterIP]
                    ELSE Desired.spec
        IN  /\ now = [fetched EXCEPT !.spec = spec,
                                     !.resourceVersion = now.resourceVersion]
            /\ now.resourceVersion > fetched.resourceVersion
            /\ ret = [obj |-> now, err |-> NoErr]

C4_Witness ==
    /\ op = "CreateK8sService"
    /\ Updated
    /\ fetched.spec.type = "ClusterIP"
    /\ store[OpKey(op)].spec.type = ""
    /\ store[OpKey(op)].labels = ExtLabels
    /\ store[OpKey(op)].spec.clusterIP = fetched.spec.clusterIP

\* C5: after CreateK8sService or CreateVirtualService has returned without
\* error, the child stored under the Channel's namespace and the derived
\* name carries an owner reference to the Channel, whether the call created
\* it or found it.
C5_OwnedByParent ==
    (op \in EnsureOps /\ pc = "done" /\ ret.err = NoErr) =>
        /\ store[KeyOf(Desired)] # NoObj
        /\ \E i \in 1..Len(store[KeyOf(Desired)].ownerReferences) :
              store[KeyOf(Desired)].ownerReferences[i] = NewControllerRef(u)

\* C6: every Update of CreateK8sService, CreateVirtualService and
\* UpdateChannel is sent on the object their Get fetched, under its
\* resourceVersion; when another writer has changed that object between the
\* Get and the Update, the Update fails (with Conflict, unless the server
\* fails otherwise; with NotFound when the object is gone), the operation
\* returns that error after the one attempt, and the store holds what the
\* other writer left.
C6_NoLostUpdate ==
    /\ (pc = "update" \/ (ReturnedAfter(2) /\ calls[2].call = "Update")) =>
          /\ fetched # NoObj
          /\ KeyOf(pending) = KeyOf(fetched)
          /\ pending.resourceVersion = fetched.resourceVersion
          /\ pending.resourceVersion # 0
    /\ (ReturnedAfter(2) /\ calls[2].call = "Update" /\ raced) =>
          /\ calls[2].err \in {Conflict, NotFound} \cup ServerErrors
          /\ ~calls[2].changed
          /\ ret = [obj |-> NoObj, err |-> calls[2].err]
          /\ store[OpKey(op)] # NoObj =>
                /\ calls[2].err \in {Conflict} \cup ServerErrors
                /\ store[OpKey(op)].resourceVersion > fetched.resourceVersion

C6_Witness ==
    /\ ReturnedAfter(2)
    /\ op = "CreateK8sService"
    /\ raced
    /\ calls[2] = Call("Update", Conflict, FALSE)
    /\ ret.err = Conflict
    /\ store[OpKey(op)] # NoObj

\* C7: UpdateChannel, once its Get has succeeded, issues no Update and
\* returns no error when the fetched Channel's finalizers and status equal
\* the caller's, and issues exactly one Update when either differs.
C7_PersistMinimal ==
    (op = "UpdateChannel" /\ fetched # NoObj) =>
        IF fetched.finalizers = u.finalizers /\ fetched.status = u.status
        THEN ReturnedAfter(1) /\ ret.err = NoErr /\ pending = NoObj
        ELSE \/ pc = "update" /\ Len(calls) = 1
             \/ ReturnedAfter(2) /\ calls[2].call = "Update"

C7_Witness ==
    /\ ReturnedAfter(1)
    /\ op = "UpdateChannel"
    /\ fetched # NoObj
    /\ fetched.status = "Ready"
    /\ fetched.finalizers # <<>>
    /\ ret.err = NoErr

\* C8: after an UpdateChannel that has written, the persisted Channel has
\* the caller's finalizers and status, and every other field as the Get of
\* this invocation fetched it, whatever the caller's copy holds there.
C8_WritesOntoFreshCopy ==
    (op = "UpdateChannel" /\ Updated) =>
        LET now == store[OpKey(op)]
        IN  /\ now.finalizers = u.finalizers
            /\ now.status = u.status
            /\ now = [fetched EXCEPT !.finalizers = u.finalizers,
                                     !.status = u.status,
                                     !.resourceVersion = now.resourceVersion]

C8_Witness ==
    /\ op = "UpdateChannel"
    /\ Updated
    /\ u.spec # fetched.spec
    /\ store[OpKey(op)].spec = fetched.spec
    /\ store[OpKey(op)].status # fetched.status

\* C9: when the Get of UpdateChannel fails, NotFound included, UpdateChannel
\* returns that error having issued no Create and no Update; the store is
\* unchanged and the Channel is not re-created.
C9_ParentMustExist ==
    (op = "UpdateChannel" /\ Len(calls) >= 1 /\ calls[1].err # NoErr) =>
        /\ ReturnedAfter(1)
        /\ ret = [obj |-> NoObj, err |-> calls[1].err]
        /\ pending = NoObj
        /\ ~calls[1].changed
        /\ calls[1].err = NotFound => store[OpKey(op)] = NoObj

C9_Witness ==
    /\ ReturnedAfter(1)
    /\ op = "UpdateChannel"
    /\ calls[1].err = NotFound
    /\ ret.err = NotFound
    /\ store[OpKey(op)] = NoObj

\* C10: when the Get of CreateK8sService or CreateVirtualService fails with
\* an error other than NotFound, the operation returns that error and no
\* object, having issued no Create and no Update.
C10_FetchErrorAborts ==
    (op \in EnsureOps /\ Len(calls) >= 1 /\ calls[1].err \notin {NoErr, NotFound}) =>
        /\ ReturnedAfter(1)
        /\ ret = [obj |-> NoObj, err |-> calls[1].err]
        /\ pending = NoObj
        /\ ~calls[1].changed

C10_Witness ==
    /\ ReturnedAfter(1)
    /\ op = "CreateVirtualService"
    /\ calls[1].err = Timeout
    /\ ret = [obj |-> NoObj, err |-> Timeout]

\* The names of a list are in the order of strings, none twice.
StrictlySorted(items) ==
    \A i \in 1..(Len(items) - 1) : Rank(items[i]) < Rank(items[i + 1])

\* C11: AddFinalizer returns FinalizerAdded exactly when the name was not in
\* the list, and the list is then the sorted, duplicate-free list of the
\* names it held plus the name; it returns FinalizerAlreadyPresent exactly
\* when the name was in the list, and the list is then as it was. Nothing
\* else of the Channel changes.
C11_AddFinalizerSetSemantics ==
    (op = "AddFinalizer" /\ pc = "done") =>
        LET before == u.finalizers
            after == c.finalizers
        IN  /\ fin.result \in {FinalizerAdded, FinalizerAlreadyPresent}
            /\ (fin.result = FinalizerAdded) <=> (fin.name \notin NewString(before))
            /\ (fin.result = FinalizerAlreadyPresent) <=> (fin.name \in NewString(before))
            /\ fin.result = FinalizerAdded =>
                  /\ NewString(after) = NewString(before) \cup {fin.name}
                  /\ StrictlySorted(after)
            /\ fin.result = FinalizerAlreadyPresent => after = before
            /\ c = [u EXCEPT !.finalizers = after]

C11_Witness ==
    /\ op = "AddFinalizer"
    /\ pc = "done"
    /\ u.finalizers = <<"x", "a", "x">>
    /\ fin = [name |-> "b", result |-> FinalizerAdded]
    /\ c.finalizers = <<"a", "b", "x">>

\* C12: when the list does not hold the name, whatever its order and its
\* duplicates, the Channel's finalizer list after RemoveFinalizer is the
\* list it was before.
C12_RemoveAbsentSameList ==
    (op = "RemoveFinalizer" /\ pc = "done" /\ fin.name \notin NewString(u.finalizers)) =>
        c.finalizers = u.finalizers

\* C12, for the set the list stands for: when the list does not hold the
\* name, the list after RemoveFinalizer holds the same names, sorted and
\* none twice; it is the list it was before when that list was sorted and
\* without duplicates, and only then.
C12_RemoveAbsentSameNames ==
    (op = "RemoveFinalizer" /\ pc = "done" /\ fin.name \notin NewString(u.finalizers)) =>
        /\ NewString(c.finalizers) = NewString(u.finalizers)
        /\ StrictlySorted(c.finalizers)
        /\ (c.finalizers = u.finalizers) <=> StrictlySorted(u.finalizers)
        /\ c = [u EXCEPT !.finalizers = c.finalizers]

C12_Witness ==
    /\ op = "RemoveFinalizer"
    /\ pc = "done"
    /\ fin.name = "b"
    /\ u.finalizers = <<"x", "a">>
    /\ c.finalizers = <<"a", "x">>

\* C16: after RemoveFinalizer the name is not in the Channel's finalizer
\* list, and every other name the list held is in it exactly once, the list
\* being sorted; it holds no name it did not hold, and nothing else of the
\* Channel changes.
C16_RemoveFinalizerExact ==
    (op = "RemoveFinalizer" /\ pc = "done") =>
        /\ fin.name \notin NewString(c.finalizers)
        /\ NewString(c.finalizers) = NewString(u.finalizers) \ {fin.name}
        /\ StrictlySorted(c.finalizers)
        /\ c = [u EXCEPT !.finalizers = c.finalizers]

C16_Witness ==
    /\ op = "RemoveFinalizer"
    /\ pc = "done"
    /\ fin.name = "a"
    /\ u.finalizers = <<"x", "a", "b">>
    /\ c.finalizers = <<"b", "x">>

\* The fetched Channel and the caller's hold the same finalizer names and
\* the same status.
SameNamesAndStatus ==
    /\ op = "UpdateChannel"
    /\ fetched # NoObj
    /\ NewString(fetched.finalizers) = NewString(u.finalizers)
    /\ fetched.status = u.status

\* C14: UpdateChannel issues no Update when the fetched Channel's finalizer
\* list and the caller's hold the same set of names and the statuses are
\* equal, whatever the order of the names in the fetched list.
C14_FinalizerOrderInsensitive ==
    SameNamesAndStatus => (pc # "update" /\ Issued(calls, "Update") = 0)

\* C14, for lists compared as lists: with the same set of names and equal
\* statuses, UpdateChannel issues no Update when the two lists are equal
\* name by name, in order; when they differ in order it issues one Update,
\* which sends the fetched Channel with the caller's list.
C14_FinalizerOrderSensitive ==
    SameNamesAndStatus =>
        IF fetched.finalizers = u.finalizers
        THEN ReturnedAfter(1) /\ ret.err = NoErr /\ pending = NoObj
        ELSE /\ \/ pc = "update" /\ Len(calls) = 1
                \/ ReturnedAfter(2) /\ calls[2].call = "Update"
             /\ pending = [fetched EXCEPT !.finalizers = u.finalizers]

C14_Witness ==
    /\ SameNamesAndStatus
    /\ fetched.finalizers = <<"x", "a">>
    /\ u.finalizers = <<"a", "x">>
    /\ ReturnedAfter(2)
    /\ calls[2].call = "Update"

\* C15: when the live VirtualService's spec satisfies the desired spec
\* (DeepDerivative) and its labels are not the desired labels,
\* CreateVirtualService issues no Create and no Update and returns the live
\* object, labels as they were.
C15_RoutingDriftSpecOnly ==
    (/\ op = "CreateVirtualService"
     /\ fetched # NoObj
     /\ DerivativeVirtualServiceSpec(newVirtualService(u).spec, fetched.spec)
     /\ fetched.labels # newVirtualService(u).labels) =>
        /\ ReturnedAfter(1)
        /\ pending = NoObj
        /\ ret = [obj |-> fetched, err |-> NoErr]
        /\ store[OpKey(op)] = fetched

C15_Witness ==
    /\ ReturnedAfter(1)
    /\ op = "CreateVirtualService"
    /\ fetched # NoObj
    /\ fetched.labels = ExtLabels
    /\ fetched.spec.gateways = <<"mesh">>
    /\ ret = [obj |-> fetched, err |-> NoErr]
    /\ store[OpKey(op)].labels = ExtLabels

\* The destinations a VirtualService routes to.
Destinations(vs) ==
    UNION {{vs.spec.http[i].route[j].destination :
                j \in 1..Len(vs.spec.http[i].route)} :
           i \in 1..Len(vs.spec.http)}

\* C19: the VirtualServices newVirtualService builds for two Channels with
\* the same provisioner, whatever their names and namespaces, route to the
\* same destination host, on port 80; for two Channels with different
\* provisioners they route to different destination hosts.
C19_DestinationByProvisioner ==
    built.kind = "newVirtualService" =>
        LET a == built.channels[1]
            b == built.channels[2]
            da == Destinations(built.out[1])
            db == Destinations(built.out[2])
        IN  /\ da # {}
            /\ \A d \in da \cup db : d.port.number = 80
            /\ a.spec.provisioner = b.spec.provisioner => da = db
            /\ a.spec.provisioner # b.spec.provisioner =>
                  \A x \in da, y \in db : x.host # y.host

C19_Witness ==
    /\ built.kind = "newVirtualService"
    /\ built.channels[1].name # built.channels[2].name
    /\ built.channels[1].namespace # built.channels[2].namespace
    /\ built.channels[1].spec.provisioner = "kafka"
    /\ built.channels[2].spec.provisioner = "kafka"
    /\ Destinations(built.out[2]) =
           {[host |-> "kafka-dispatcher.knative-eventing.svc.cluster.local",
             port |-> [number |-> 80]]}

\* String t occurs in string s.
Contains(s, t) ==
    \E i \in 1..(Len(s) - Len(t) + 1) : SubSeq(s, i, i + Len(t) - 1) = t

\* C20: ChannelHostName(name, namespace) contains the name and the
\* namespace, and for one name gives different hosts for different
\* namespaces.
C20_ChannelHostNaming ==
    built.kind = "ChannelHostName" =>
        LET a == built.channels[1]
            b == built.channels[2]
        IN  /\ \A i \in 1..2 :
                  /\ Contains(built.out[i], built.channels[i].name)
                  /\ Contains(built.out[i], built.channels[i].namespace)
            /\ (a.name = b.name /\ a.namespace # b.namespace) =>
                  built.out[1] # built.out[2]
            /\ (a.name = b.name /\ a.namespace = b.namespace) =>
                  built.out[1] = built.out[2]

C20_Witness ==
    /\ built.kind = "ChannelHostName"
    /\ built.channels[1].name = built.channels[2].name
    /\ built.out[1] = "orders.ns1.channels.cluster.local"
    /\ built.out[2] = "orders.ns2.channels.cluster.local"

\* A step of the package: of one of its three store operations, or a call
\* of one of its two finalizer helpers.
PackageStep ==
    \/ CreateK8sService
    \/ createK8sServiceCreate
    \/ createK8sServiceUpdate
    \/ CreateVirtualService
    \/ CreateVirtualServiceCreate
    \/ CreateVirtualServiceUpdate
    \/ UpdateChannel
    \/ UpdateChannelUpdate
    \/ AddFinalizerCall(OwnFinalizers)
    \/ RemoveFinalizerCall(OwnFinalizers)

\* C17: no step of CreateK8sService, CreateVirtualService, UpdateChannel,
\* AddFinalizer or RemoveFinalizer issues a delete or takes an object out
\* of the store: the calls issued are Gets, Creates and Updates, and every
\* object the store holds before the step it holds after it.
C17_NeverDeletes ==
    [][PackageStep =>
          /\ \A k \in Keys : store[k] # NoObj => store'[k] # NoObj
          /\ \A i \in 1..Len(calls') : calls'[i].call \in {"Get", "Create", "Update"}
      ]_vars

C17_Witness ==
    /\ ReturnedAfter(2)
    /\ op = "CreateVirtualService"
    /\ calls[2] = Call("Create", NoErr, TRUE)
    /\ \A k \in Keys : store[k] # NoObj

\* C18: one invocation of CreateK8sService, CreateVirtualService or
\* UpdateChannel issues at most one Create or Update (never both, never
\* two), after its one Get; AddFinalizer and RemoveFinalizer issue no store
\* call.
C18_AtMostOneWrite ==
    /\ Issued(calls, "Create") + Issued(calls, "Update") <= 1
    /\ Issued(calls, "Get") <= 1
    /\ Cardinality({i \in 1..Len(calls) : calls[i].changed}) <= 1
    /\ pc \in {"create", "update"} => Len(calls) = 1
    /\ op \in {"AddFinalizer", "RemoveFinalizer"} => calls = <<>> /\ pc = "done"

C18_Witness ==
    /\ ReturnedAfter(2)
    /\ op = "CreateK8sService"
    /\ calls = <<Call("Get", NotFound, FALSE), Call("Create", NoErr, TRUE)>>
    /\ c.finalizers = <<"x">>

\* A step of another writer.
ExtStep == ExtCreate \/ ExtUpdate \/ ExtDelete

\* No store call of the operation in flight has failed on the server's side.
CallsSucceed == \A i \in 1..Len(calls) : calls[i].err \notin ServerErrors

\* The store holds the Channel's Service and VirtualService, and the desired
\* spec of each is a derivative of the live one.
ChildrenAsDesired ==
    LET svc == newK8sService(c)
        vs == newVirtualService(c)
    IN  /\ store[KeyOf(svc)] # NoObj
        /\ store[KeyOf(vs)] # NoObj
        /\ DerivativeServiceSpec(svc.spec, store[KeyOf(svc)].spec)
        /\ DerivativeVirtualServiceSpec(vs.spec, store[KeyOf(vs)].spec)

\* The pass in flight has issued no Create and no Update and is not about to.
NoWrite ==
    /\ pc \notin {"create", "update"}
    /\ Issued(calls, "Create") = 0
    /\ Issued(calls, "Update") = 0

====
